---- MODULE Spec2Model ----
(***************************************************************************)
(* Model of the WUG simulation: the AnnotatedGraph (multi-judgement         *)
(* aggregation, cluster labels) and the correlation clusterer               *)
(* (cluster_correlation_search).                                            *)
(*                                                                          *)
(* Weights are kept in half units: a weight w of the program is the         *)
(* integer 2*w here, so the median of an even number of Likert judgements   *)
(* (3 and 4 -> 3.5) stays an integer (7) and the soft weight w - 2.5 is     *)
(* 2*w - 5.                                                                 *)
(***************************************************************************)
EXTENDS Integers, Sequences, FiniteSets, TLC

\* ---------------------------------------------------------------- bounds
\* max_nodes of AnnotatedGraph(max_nodes): node ids are 0 .. MaxNodes-1
MaxNodes == 3
\* number of add_edge calls explored in one behaviour
MaxJudgements == 4
\* longest edge_list handed to add_edges
MaxBatch == 2

\* largest node count of a graph handed to cluster_correlation_search
MaxClusterNodes == 3
\* the parameter s of cluster_correlation_search: annealing runs for n in 2 .. s-1
MaxSenses == 3

\* the nodes of the largest ground truth handed to the sampler
MaxTrueNodes == 4
\* the judgements recorded before a round of the sampler
MaxRecorded == 3
\* the pairs of the longest walk of the sampler
MaxWalk == 6

\* the simulations that share the stopping criterion of one process
MaxSimulations == 2
\* the calls of the stopping criterion explored in one behaviour
MaxStopCalls == 4
\* the largest max_iter handed to simulation
MaxIter == 2

\* ------------------------------------------------------------- sentinels
\* np.nan, the stored form of a MISSING judgement
NaN == -98
\* Python's None
None == -99

Nodes == 0 .. (MaxNodes - 1)
\* the judgement values a caller records: 0 is MISSING, the others Likert
Likert == {1, 3, 4}
JudgementValues == {0} \cup Likert

\* ------------------------------------------------------------- helpers
Min2(a, b) == IF a <= b THEN a ELSE b
Max2(a, b) == IF a <= b THEN b ELSE a

unsorted(node_u, node_v) == <<node_u, node_v>>

\* sorted([node_u, node_v])
sorted(node_u, node_v) == <<Min2(node_u, node_v), Max2(node_u, node_v)>>

\* dict[k] = v
Put(d, k, v) == [x \in (DOMAIN d) \cup {k} |-> IF x = k THEN v ELSE d[x]]

\* dict.get(k, None) is not None
HasKey(d, k) == k \in DOMAIN d

EmptyDict == [x \in {} |-> None]

\* the k-th smallest (k = 1 ..) of the non-NaN entries of the list h
KthSmallest(h, k) ==
    LET idx == {i \in 1 .. Len(h) : h[i] # NaN}
    IN  CHOOSE x \in {h[i] : i \in idx} :
            /\ Cardinality({i \in idx : h[i] < x}) < k
            /\ k <= Cardinality({i \in idx : h[i] <= x})

nanmedian_low(h) ==
    LET n == Cardinality({i \in 1 .. Len(h) : h[i] # NaN})
    IN  IF n = 0 THEN NaN ELSE 2 * KthSmallest(h, (n + 1) \div 2)

\* np.nanmedian(h) in half units: NaN when every entry is NaN, else the middle
\* entry of the sorted numeric entries, or the mean of the two middle ones
nanmedian(h) ==
    LET n == Cardinality({i \in 1 .. Len(h) : h[i] # NaN})
    IN  IF n = 0 THEN NaN
        ELSE KthSmallest(h, (n + 1) \div 2) + KthSmallest(h, (n + 2) \div 2)

VARIABLES
    ag,     \* the AnnotatedGraph under construction
    canon   \* a second AnnotatedGraph that is handed every judgement of ag
            \* with its endpoints in canonical order (min, max)

\* one call of cluster_correlation_search(G, s, ..., initial, split_flag)
VARIABLES
    G,          \* the graph: [nodes: its nodes in G.nodes() order, weight: edge -> weight]
    initial,    \* the caller's initial clustering (a list of sets), <<>> for none
    split_flag, \* the parameter split_flag
    classes,    \* the local list of clusters
    init_state, \* the initial assignment, node index -> cluster index
    loss_init,  \* conflict_loss(init_state)
    l2s,        \* loss -> list of <<state, max_val>> recorded so far
    loop_n,     \* the loop variable n of the annealing loop
    best_state, \* the entry chosen among the minimum-loss ones
    pc          \* where the call stands

ccs_vars == <<G, initial, split_flag, classes, init_state, loss_init, l2s,
              loop_n, best_state, pc>>

\* one round of the DWUG sampler: sampling_strategy.dwug_sampling(trueGraph,
\* params) and the functions of utils/dwug_sampling.py it calls; the
\* annotated graph of the round (params['simulationGraph']) is ag
VARIABLES
    sample_graph,      \* the ground truth: [nodes: set, weight: pair -> weight]
    percentage_nodes,  \* params['percentage_nodes'], a typed number
    percentage_edges,  \* params['percentage_edges'], a typed number
    min_size_mc,       \* params['min_size_mc']
    num_flag,          \* params['num_flag']
    fallback_param,    \* params['random_sample_empty_round'] as the caller set it
    multi_clusters,    \* the clusters of size >= min_size_mc, a list of sets
    combination_nodes, \* the list combination_nodes
    exploration_nodes, \* the node list handed to _exploration_phase
    new_nodes,         \* the fresh nodes drawn in a subsequent round
    max_edges,         \* the edge budget of the walk, in eighths
    sampled_edge_list, \* the triples (u, v, w) of the round's result list
    exploration_edge_list, \* the triples of the walk of _exploration_phase
    last_node,         \* the current node of the walk
    dpc                \* where the round stands

dwug_vars == <<sample_graph, percentage_nodes, percentage_edges, min_size_mc,
               num_flag, fallback_param, multi_clusters, combination_nodes,
               exploration_nodes, new_nodes, max_edges, sampled_edge_list, exploration_edge_list,
               last_node, dpc>>

\* the window of apd_convergence, shared by the simulations of one process
VARIABLES
    apd_time_steps,  \* the module-level list _apd_time_steps of (index, value)
    timesteps,       \* params['timesteps']
    appended_by,     \* for every entry of the window, the simulation whose call appended it
    evaluated_by,    \* the simulation of the last call that evaluated a window, 0 for none
    evaluated_slice, \* for every entry of the slice that call evaluated, the simulation that appended it
    apd_result       \* what the last call returned or raised, "None" before any call

\* one call of cluster_connected(graph, params) and the calls of
\* cluster_size_change_conv(graph, params), both on the graph ag
VARIABLES
    conn_params,    \* the dict params of cluster_connected
    conn_result,    \* what cluster_connected returned, "None" before the call
    num_clusters,   \* the module-level list _num_clusters
    csc_params,     \* the dict params of cluster_size_change_conv
    csc_result      \* what its last call returned or raised, "None" before any call

crit_vars == <<conn_params, conn_result, num_clusters, csc_params, csc_result>>

stop_vars == <<apd_time_steps, timesteps, appended_by, evaluated_by,
               evaluated_slice, apd_result, crit_vars>>

\* one call of simulation(trueGraph, simulationGraph, max_iter, ...); the
\* simulation graph of the call is ag
VARIABLES
    max_iter,         \* the parameter max_iter
    clustering_flag,  \* whether a clustering strategy was given
    loop_i,           \* the loop variable _ of the round loop, None while unbound
    broke,            \* whether the criterion of the latest round returned True
    sampled_edges,    \* the local sampled_edges of the round
    sim_clusters,     \* the local clusters of the round
    round_start,      \* the simulation graph when the round began
    round_log,        \* the phases the round has been through, in order
    sim_result,       \* what the call returned or raised
    spc               \* where the call stands

sim_vars == <<max_iter, clustering_flag, loop_i, broke, sampled_edges,
              sim_clusters, round_start, round_log, sim_result, spc>>

\* one call of clustering_strategy.correlation_clustering(simulationGraph,
\* params) on the simulation graph ag
VARIABLES
    cc_params,       \* the dict params
    community_node,  \* what the call returned or raised
    cpc              \* where the call stands

cc_vars == <<cc_params, community_node, cpc>>

ext_vars == <<dwug_vars, stop_vars, sim_vars, cc_vars>>

vars == <<ag, canon, ccs_vars, ext_vars>>

\* ------------------------------------------------------- AnnotatedGraph
\* AnnotatedGraph(max_nodes): no nodes, no edges, every label -1
NewAnnotatedGraph ==
    [ G_nodes           |-> {},
      G_edges           |-> EmptyDict,
      edge_weight       |-> EmptyDict,
      edge_soft_weight  |-> EmptyDict,
      edge_added_weights|-> EmptyDict,
      weight_edge       |-> EmptyDict,
      last_edge         |-> <<>>,
      judgements        |-> 0,
      labels            |-> [n \in Nodes |-> -1],
      community_nodes   |-> EmptyDict ]

get_edge_nan(g, u_node, v_node) ==
    LET e      == sorted(u_node, v_node)
    IN  IF ~HasKey(g.edge_added_weights, e) THEN None
        ELSE nanmedian(g.edge_added_weights[e])

\* AnnotatedGraph.get_edge: None for a pair never judged, 0 when every
\* judgement of the pair is NaN, else the median of the numeric judgements
get_edge(g, u_node, v_node) ==
    LET e      == sorted(u_node, v_node)
    IN  IF ~HasKey(g.edge_added_weights, e) THEN None
        ELSE LET weight == nanmedian(g.edge_added_weights[e])
             IN  IF weight = NaN THEN 0 ELSE weight

\* np.nan for the judgement value 0 (line 63)
to_nweight(weight) == IF weight # 0 THEN weight ELSE NaN

\* the soft weight of an edge of weight w: w - 2.5 (line 79)
soft_weight(w) == w - 5

record_missing_nocount(g, hist, node_u, node_v) ==
    [g EXCEPT !.edge_added_weights = hist,
              !.last_edge = <<node_u, node_v>>]

\* add_edge when the median of the pair's judgements is NaN: only the history,
\* last_edge and the judgement counter change
record_missing(g, hist, node_u, node_v) ==
    [g EXCEPT !.edge_added_weights = hist,
              !.last_edge = <<node_u, node_v>>,
              !.judgements = @ + 1]

\* add_edge when the median is a number: the edge (u, v) gets the weight
record_weight(g, hist, e, weight_to_add, node_u, node_v) ==
    LET bucket == IF ~HasKey(g.weight_edge, weight_to_add)
                  THEN <<>> ELSE g.weight_edge[weight_to_add]
    IN  [g EXCEPT !.edge_added_weights = hist,
                  !.G_nodes = @ \cup {e[1], e[2]},
                  !.G_edges = Put(@, e, weight_to_add),
                  !.edge_weight = Put(@, e, weight_to_add),
                  !.edge_soft_weight = Put(@, e, soft_weight(weight_to_add)),
                  !.weight_edge = Put(@, weight_to_add, Append(bucket, e)),
                  !.last_edge = <<node_u, node_v>>,
                  !.judgements = @ + 1]

\* AnnotatedGraph.add_edge: the graph after add_edge(node_u, node_v, weight)
add_edge(g, node_u, node_v, weight) ==
    LET e       == sorted(node_u, node_v)
        nweight == to_nweight(weight)
        old     == IF ~HasKey(g.edge_added_weights, e)
                   THEN <<>> ELSE g.edge_added_weights[e]
        hist    == Put(g.edge_added_weights, e, Append(old, nweight))
        weight_to_add == nanmedian(hist[e])
    IN  IF weight_to_add = NaN
        THEN record_missing(g, hist, node_u, node_v)
        ELSE record_weight(g, hist, e, weight_to_add, node_u, node_v)

\* AnnotatedGraph.add_edges: add_edge for every edge of the list, in order
RECURSIVE add_edges(_, _)
add_edges(g, edge_list) ==
    IF edge_list = <<>> THEN g
    ELSE add_edges(add_edge(g, edge_list[1][1], edge_list[1][2], edge_list[1][3]),
                   Tail(edge_list))

get_last_added_edge(g) == IF g.last_edge = <<>> THEN None ELSE g.last_edge

get_last_added_node(g) == IF g.last_edge # <<>> THEN g.last_edge[2] ELSE None

get_num_added_edges(g) == g.judgements

\* BaseGraph.update_community_nodes_membership: the membership dict is
\* replaced by the new one
base_update_community_nodes_membership(g, new_community_nodes) ==
    [g EXCEPT !.community_nodes = new_community_nodes]

\* AnnotatedGraph.update_community_nodes_membership: after the base update,
\* labels[node] = k for every node of every cluster k of the new dict
update_community_nodes_membership(g, new_community_nodes) ==
    LET b == base_update_community_nodes_membership(g, new_community_nodes)
    IN  [b EXCEPT !.labels =
            [n \in DOMAIN g.labels |->
                IF \E k \in DOMAIN b.community_nodes : n \in b.community_nodes[k]
                THEN CHOOSE k \in DOMAIN b.community_nodes : n \in b.community_nodes[k]
                ELSE g.labels[n]]]

\* ------------------------------------------- cluster_correlation_search
RECURSIVE SumOver(_, _)
\* np.sum of f over a finite set
SumOver(f, S) ==
    IF S = {} THEN 0
    ELSE LET x == CHOOSE y \in S : TRUE
         IN  f[x] + SumOver(f, S \ {x})

SetMin(S) == CHOOSE x \in S : \A y \in S : x <= y

\* the elements of a set of numbers as a list in ascending order
RECURSIVE AscSeq(_)
AscSeq(S) == IF S = {} THEN <<>> ELSE <<SetMin(S)>> \o AscSeq(S \ {SetMin(S)})

RangeOf(seq) == {seq[i] : i \in DOMAIN seq}

\* n2i: the index of a node in G.nodes() order, counted from 0
n2i(g, node) == (CHOOSE i \in DOMAIN g.nodes : g.nodes[i] = node) - 1

\* i2n: the node at an index
i2n(g, i) == g.nodes[i + 1]

\* the edges of g that cluster_connected_components and
\* split_non_evidence_clusters keep: weight neither < 0 nor NaN
positive_edges(g) ==
    {e \in DOMAIN g.weight : ~(g.weight[e] < 0 \/ g.weight[e] = NaN)}

RECURSIVE Reach(_, _)
\* the nodes joined to the set R by a path of edges of E
Reach(R, E) ==
    LET R2 == R \cup {x \in UNION {{e[1], e[2]} : e \in E} :
                        \E e \in E : {e[1], e[2]} \cap R # {} /\ x \in {e[1], e[2]}}
    IN  IF R2 = R THEN R ELSE Reach(R2, E)

RECURSIVE SortedByFirst(_)
\* a set of disjoint non-empty sets as the list sorted by smallest element
SortedByFirst(SS) ==
    IF SS = {} THEN <<>>
    ELSE LET c == CHOOSE x \in SS : \A y \in SS : SetMin(x) <= SetMin(y)
         IN  <<c>> \o SortedByFirst(SS \ {c})

\* cluster_connected_components on the subgraph of g induced by the nodes S:
\* the connected components over the kept edges, sorted by first element
cluster_connected_components(g, S) ==
    LET E == {e \in positive_edges(g) : e[1] \in S /\ e[2] \in S}
    IN  SortedByFirst({Reach({x}, E) : x \in S})

RECURSIVE classes_out_first(_, _)
classes_out_first(g, clusters) ==
    IF clusters = <<>> THEN <<>>
    ELSE <<cluster_connected_components(g, clusters[1])[1]>>
            \o classes_out_first(g, Tail(clusters))

RECURSIVE classes_out(_, _)
\* classes_out of split_non_evidence_clusters (lines 165-171): every
\* cluster, in order, replaced by the connected components of its subgraph
\* over the kept edges
classes_out(g, clusters) ==
    IF clusters = <<>> THEN <<>>
    ELSE cluster_connected_components(g, clusters[1])
            \o classes_out(g, Tail(clusters))

RECURSIVE nodes_list(_)
\* [node for cluster in clusters for node in cluster], the nodes of a
\* cluster in ascending order
nodes_list(clusters) ==
    IF clusters = <<>> THEN <<>>
    ELSE AscSeq(clusters[1]) \o nodes_list(Tail(clusters))

\* the check of lines 173-179 that ends the process with sys.exit
nodes_changed(nodes_in, nodes_out) ==
    \/ RangeOf(nodes_in) # RangeOf(nodes_out)
    \/ Len(nodes_in) # Len(nodes_out)

\* split_non_evidence_clusters: classes_out when the check lets it return
split_non_evidence_clusters(g, clusters) == classes_out(g, clusters)

keep_order(cl) == cl

RECURSIVE sort_by_size(_)
\* list.sort(key=lambda x: -len(x)): stable, largest cluster first
sort_by_size(cl) ==
    IF cl = <<>> THEN <<>>
    ELSE LET m == CHOOSE i \in DOMAIN cl :
                    /\ \A j \in DOMAIN cl : Cardinality(cl[j]) <= Cardinality(cl[i])
                    /\ \A j \in 1 .. (i - 1) : Cardinality(cl[j]) < Cardinality(cl[i])
         IN  <<cl[m]>> \o sort_by_size([j \in 1 .. (Len(cl) - 1) |->
                                          IF j < m THEN cl[j] ELSE cl[j + 1]])

\* edges_positive / edges_negative as sets of <<i, j, w>> over node indices
edges_positive(g) ==
    {<<n2i(g, e[1]), n2i(g, e[2]), g.weight[e]>> :
        e \in {e \in DOMAIN g.weight : g.weight[e] # NaN /\ g.weight[e] >= 0}}

edges_negative(g) ==
    {<<n2i(g, e[1]), n2i(g, e[2]), g.weight[e]>> :
        e \in {e \in DOMAIN g.weight : g.weight[e] # NaN /\ g.weight[e] < 0}}

conflict_loss_positive(g, state) ==
    LET cut == {t \in edges_positive(g) : state[t[1]] # state[t[2]]}
    IN  SumOver([t \in cut |-> t[3]], cut)

\* conflict_loss: the weight of the positive edges between clusters plus the
\* absolute weight of the negative edges inside clusters
conflict_loss(g, state) ==
    LET cut  == {t \in edges_positive(g) : state[t[1]] # state[t[2]]}
        kept == {t \in edges_negative(g) : state[t[1]] = state[t[2]]}
    IN  SumOver([t \in cut |-> t[3]], cut) + SumOver([t \in kept |-> -t[3]], kept)

\* n2c and init_state: the cluster index (from 0) of every node index
initial_state(g, cl) ==
    [i \in 0 .. (Len(g.nodes) - 1) |->
        (CHOOSE k \in DOMAIN cl : i2n(g, i) \in cl[k]) - 1]

max_loss(d) == CHOOSE k \in DOMAIN d : \A j \in DOMAIN d : j <= k

\* min(l2s.keys())
min_loss(d) == CHOOSE k \in DOMAIN d : \A j \in DOMAIN d : k <= j

\* l2s[fitness].append(entry)
l2s_append(d, fitness, entry) ==
    Put(d, fitness, IF HasKey(d, fitness) THEN Append(d[fitness], entry) ELSE <<entry>>)

RECURSIVE first_seen(_, _)
\* the cluster ids of a state in order of first occurrence (the key order of c2n)
first_seen(state, i) ==
    IF i \notin DOMAIN state THEN <<>>
    ELSE LET rest == first_seen(state, i + 1)
         IN  <<state[i]>> \o SelectSeq(rest, LAMBDA c : c # state[i])

classes_of_state_last(g, state) ==
    LET ids == first_seen(state, 0)
    IN  [k \in DOMAIN ids |->
            {i2n(g, CHOOSE j \in DOMAIN state :
                        /\ state[j] = ids[k]
                        /\ \A j2 \in DOMAIN state : state[j2] = ids[k] => j2 <= j)}]

\* c2n and classes = [set(c2n[c]) for c in c2n]: the non-empty clusters of a state
classes_of_state(g, state) ==
    LET ids == first_seen(state, 0)
    IN  [k \in DOMAIN ids |-> {i2n(g, i) : i \in {j \in DOMAIN state : state[j] = ids[k]}}]

\* the states a simulated-annealing run over {0 .. max_val-1}^N can return
AnnealingStates(g, max_val) == [0 .. (Len(g.nodes) - 1) -> 0 .. (max_val - 1)]

\* the (u, v, weight) triples a caller can hand to add_edge
EdgeArgs == Nodes \X Nodes \X JudgementValues

\* the membership dicts a clustering pass hands over: clusters 0 .. k-1,
\* non-empty and pairwise disjoint, over any subset of the nodes
Clusterings ==
    LET Assign == [Nodes -> {-1} \cup Nodes]
        Used(f) == {f[n] : n \in Nodes} \ {-1}
    IN  { [k \in Used(f) |-> {n \in Nodes : f[n] = k}] :
            f \in {f \in Assign : Used(f) = 0 .. (Cardinality(Used(f)) - 1)} }

\* the edge list with the endpoints of every edge in canonical order
InCanonicalOrder(edge_list) ==
    [i \in DOMAIN edge_list |->
        <<Min2(edge_list[i][1], edge_list[i][2]),
          Max2(edge_list[i][1], edge_list[i][2]), edge_list[i][3]>>]

\* no call of cluster_correlation_search is under way
CcsIdle ==
    /\ G = [nodes |-> <<>>, weight |-> EmptyDict]
    /\ initial = <<>>
    /\ split_flag = TRUE
    /\ classes = <<>>
    /\ init_state = EmptyDict
    /\ loss_init = 0
    /\ l2s = EmptyDict
    /\ loop_n = 0
    /\ best_state = EmptyDict
    /\ pc = "idle"

\* no round of the sampler is under way
DwugIdle ==
    /\ sample_graph = [nodes |-> {}, weight |-> EmptyDict]
    /\ percentage_nodes = None
    /\ percentage_edges = None
    /\ min_size_mc = 0
    /\ num_flag = FALSE
    /\ fallback_param = 0
    /\ multi_clusters = <<>>
    /\ combination_nodes = <<>>
    /\ exploration_nodes = <<>>
    /\ new_nodes = <<>>
    /\ max_edges = 0
    /\ sampled_edge_list = <<>>
    /\ exploration_edge_list = <<>>
    /\ last_node = None
    /\ dpc = "idle"

\* no call of cluster_connected was made
ConnIdle ==
    /\ conn_params = EmptyDict
    /\ conn_result = "None"

\* no call of cluster_size_change_conv was made
CscIdle ==
    /\ num_clusters = <<>>
    /\ csc_params = EmptyDict
    /\ csc_result = "None"

CritIdle == ConnIdle /\ CscIdle

\* no call of apd_convergence was made
ApdIdle ==
    /\ apd_time_steps = <<>>
    /\ timesteps = 0
    /\ appended_by = <<>>
    /\ evaluated_by = 0
    /\ evaluated_slice = <<>>
    /\ apd_result = "None"

\* no stopping criterion was called
StopIdle == ApdIdle /\ CritIdle

\* no call of simulation is under way
SimIdle ==
    /\ max_iter = 0
    /\ clustering_flag = FALSE
    /\ loop_i = None
    /\ broke = FALSE
    /\ sampled_edges = <<>>
    /\ sim_clusters = EmptyDict
    /\ round_start = NewAnnotatedGraph
    /\ round_log = <<>>
    /\ sim_result = [kind |-> "idle"]
    /\ spc = "idle"

\* no call of correlation_clustering is under way
CcIdle ==
    /\ cc_params = EmptyDict
    /\ community_node = [kind |-> "none"]
    /\ cpc = "idle"

Init ==
    /\ ag = NewAnnotatedGraph
    /\ canon = NewAnnotatedGraph
    /\ CcsIdle
    /\ DwugIdle /\ StopIdle /\ SimIdle /\ CcIdle

AddEdge ==
    /\ ag.judgements < MaxJudgements
    /\ \E a \in EdgeArgs :
        /\ ag' = add_edge(ag, a[1], a[2], a[3])
        /\ canon' = add_edge(canon, Min2(a[1], a[2]), Max2(a[1], a[2]), a[3])
    /\ UNCHANGED <<ccs_vars, ext_vars>>

\* add_edges on a list of 2 .. MaxBatch edges (a list of one edge is AddEdge,
\* the empty list changes nothing)
AddEdges ==
    \E len \in 2 .. MaxBatch :
        /\ ag.judgements + len <= MaxJudgements
        /\ \E edge_list \in [1 .. len -> EdgeArgs] :
            /\ ag' = add_edges(ag, edge_list)
            /\ canon' = add_edges(canon, InCanonicalOrder(edge_list))
    /\ UNCHANGED <<ccs_vars, ext_vars>>

UpdateCommunity ==
    /\ \E c \in Clusterings : ag' = update_community_nodes_membership(ag, c)
    /\ UNCHANGED <<canon, ccs_vars, ext_vars>>

Next == AddEdge \/ AddEdges

\* the judgement-recording operations of an AnnotatedGraph
Spec == Init /\ [][Next]_vars

NextLabels == UpdateCommunity

\* the clustering passes over an AnnotatedGraph
SpecLabels == Init /\ [][NextLabels]_vars

\* the weights of the edges of an input graph
EdgeWeights == {-1, 1, NaN}

NodeOrders(S) ==
    {f \in [1 .. Cardinality(S) -> S] : \A i, j \in DOMAIN f : i # j => f[i] # f[j]}

\* the input graphs: nodes 0 .. k-1 in any G.nodes() order, any set of
\* edges (u, v) with u < v, any weights
InputGraphs ==
    UNION { UNION { { [nodes |-> order, weight |-> w] :
                        w \in [E -> EdgeWeights], order \in NodeOrders(0 .. (k - 1)) } :
                    E \in SUBSET {e \in (0 .. (k - 1)) \X (0 .. (k - 1)) : e[1] < e[2]} } :
            k \in 0 .. MaxClusterNodes }

\* the partitions of a set into non-empty clusters, as sets of sets
Partitions(S) ==
    {P \in SUBSET (SUBSET S \ {{}}) :
        /\ UNION P = S
        /\ \A a \in P, b \in P : a # b => a \cap b = {}}

\* the initial clusterings a caller can supply: none (the default []), or
\* the clusters of a partition of the nodes of the graph
InitialClusterings(g) ==
    {<<>>} \cup {SortedByFirst(P) : P \in Partitions(RangeOf(g.nodes)) \ {{}}}

\* the graph of scenario S6: the positive triangle {0, 1, 2} and the
\* isolated node MaxClusterNodes
ScenarioGraphs ==
    { [nodes  |-> [i \in 1 .. (MaxClusterNodes + 1) |-> i - 1],
       weight |-> [e \in {x \in (0 .. 2) \X (0 .. 2) : x[1] < x[2]} |-> 1]] }

InitCCS ==
    /\ ag = NewAnnotatedGraph
    /\ canon = NewAnnotatedGraph
    /\ \/ /\ G \in InputGraphs
          /\ initial \in InitialClusterings(G)
       \/ /\ G \in ScenarioGraphs
          /\ initial = <<>>
    /\ split_flag \in BOOLEAN
    /\ classes = <<>>
    /\ init_state = EmptyDict
    /\ loss_init = 0
    /\ l2s = EmptyDict
    /\ loop_n = 0
    /\ best_state = EmptyDict
    /\ pc = "start"
    /\ DwugIdle /\ StopIdle /\ SimIdle /\ CcIdle

\* lines 36-77: the initial assignment and its loss; with loss 0 the initial
\* clusters are sorted by size and returned, the caller's list included
InitialAssignment ==
    /\ pc = "start"
    /\ LET cl == IF initial = <<>>
                 THEN cluster_connected_components(G, RangeOf(G.nodes))
                 ELSE initial
           st == initial_state(G, cl)
           ls == conflict_loss(G, st)
       IN  /\ init_state' = st
           /\ loss_init' = ls
           /\ IF ls = 0
              THEN /\ classes' = sort_by_size(cl)
                   /\ initial' = IF initial = <<>> THEN initial ELSE sort_by_size(cl)
                   /\ l2s' = l2s
                   /\ loop_n' = loop_n
                   /\ pc' = "done"
              ELSE /\ classes' = cl
                   /\ initial' = initial
                   /\ l2s' = l2s_append(EmptyDict, ls, <<st, Len(cl)>>)
                   /\ loop_n' = 2
                   /\ pc' = IF 2 < MaxSenses THEN "anneal_initial" ELSE "choose"
    /\ UNCHANGED <<ext_vars, ag, canon, G, split_flag, best_state>>

\* lines 82-93: an annealing run from init_state over max(n, len(classes)) values
AnnealWithInitial ==
    /\ pc = "anneal_initial"
    /\ LET max_val == Max2(loop_n, Len(classes))
       IN  \E state \in AnnealingStates(G, max_val) :
               l2s' = l2s_append(l2s, conflict_loss(G, state), <<state, max_val>>)
    /\ pc' = "anneal_random"
    /\ UNCHANGED <<ext_vars, ag, canon, G, initial, split_flag, classes, init_state, loss_init,
                   loop_n, best_state>>

\* lines 96-104: an annealing run from a random state over n values
AnnealRandom ==
    /\ pc = "anneal_random"
    /\ LET max_val == loop_n
       IN  \E state \in AnnealingStates(G, max_val) :
               l2s' = l2s_append(l2s, conflict_loss(G, state), <<state, max_val>>)
    /\ loop_n' = loop_n + 1
    /\ pc' = IF loop_n + 1 < MaxSenses THEN "anneal_initial" ELSE "choose"
    /\ UNCHANGED <<ext_vars, ag, canon, G, initial, split_flag, classes, init_state, loss_init,
                   best_state>>

\* lines 107-117: a random entry among those of minimum loss, and its clusters
ChooseWinner ==
    /\ pc = "choose"
    /\ \E _id \in DOMAIN l2s[min_loss(l2s)] :
        /\ best_state' = l2s[min_loss(l2s)][_id][1]
        /\ classes' = classes_of_state(G, l2s[min_loss(l2s)][_id][1])
    /\ pc' = "split"
    /\ UNCHANGED <<ext_vars, ag, canon, G, initial, split_flag, init_state, loss_init, l2s, loop_n>>

\* lines 119-128: the split when split_flag is set, the sort by size, the return
SplitAndReturn ==
    /\ pc = "split"
    /\ IF /\ split_flag
          /\ nodes_changed(nodes_list(classes), nodes_list(classes_out(G, classes)))
       THEN /\ pc' = "SystemExit"
            /\ UNCHANGED classes
       ELSE /\ classes' = sort_by_size(IF split_flag
                                       THEN split_non_evidence_clusters(G, classes)
                                       ELSE classes)
            /\ pc' = "done"
    /\ UNCHANGED <<ext_vars, ag, canon, G, initial, split_flag, init_state, loss_init, l2s, loop_n,
                   best_state>>

NextCCS ==
    \/ InitialAssignment
    \/ AnnealWithInitial
    \/ AnnealRandom
    \/ ChooseWinner
    \/ SplitAndReturn

\* one call of cluster_correlation_search on any input graph
SpecCCS == InitCCS /\ [][NextCCS]_vars

\* ------------------------------------------------------- the DWUG sampler
\* a Python float q/4 (the fractions are kept in quarters, which are exact
\* in binary floating point) and a Python int k
FloatVal(q) == [type |-> "float", val |-> q]
IntVal(k) == [type |-> "int", val |-> k]

\* the value of a typed number, in quarters
Quarters(x) == IF x.type = "float" THEN x.val ELSE 4 * x.val

\* Python's round() of q/4: to the nearest integer, a half to the even one
round(q) ==
    LET f == q \div 4
        r == q % 4
    IN  IF r < 2 THEN f
        ELSE IF r > 2 THEN f + 1
        ELSE IF f % 2 = 0 THEN f ELSE f + 1

\* AnnotatedGraph(max_nodes): no nodes, no edges, every label -1
AnnotatedGraph(max_nodes) ==
    [NewAnnotatedGraph EXCEPT !.labels = [n \in 0 .. (max_nodes - 1) |-> -1]]

\* BaseGraph.get_number_nodes, get_number_edges and get_edge of the ground
\* truth: the weight of the pair, None for a pair that is not an edge
get_number_nodes(g) == Cardinality(g.nodes)
get_number_edges(g) == Cardinality(DOMAIN g.weight)
sample_get_edge(g, u, v) ==
    IF HasKey(g.weight, sorted(u, v)) THEN g.weight[sorted(u, v)] ELSE None

\* BaseGraph.get_number_edges of the annotated graph
annotated_number_edges(g) == Cardinality(DOMAIN g.G_edges)

check_node_cluster_con_edge(g, node, cluster) ==
    \E c_node \in cluster : sorted(node, c_node) \in DOMAIN g.G_edges

\* _check_node_cluster_con: some member of the cluster has a get_edge to the
\* node that is not None
check_node_cluster_con(g, node, cluster) ==
    \E c_node \in cluster : get_edge(g, Min2(node, c_node), Max2(node, c_node)) # None

number_nodes_raw(g, pn, flag) == pn

\* lines 33 and 66: the number of nodes to draw, a typed number
number_nodes_of(g, pn, flag) ==
    IF flag THEN pn
    ELSE IntVal(round(get_number_nodes(g) * Quarters(pn)))

max_edges_flag_only(len, pe, flag) == 2 * Quarters(pe)

\* lines 40 and 74: the edge budget for a walk over len nodes, in eighths
max_edges_of(len, pe, flag) ==
    IF flag THEN 2 * Quarters(pe)
    ELSE len * (len - 1) * Quarters(pe)

\* np.random.choice(a, size, replace=False): "ValueError" for more than the
\* population holds or for a non-zero size on an empty population,
\* "TypeError" for any other size that is a float, else the ways to draw
\* size distinct elements
choice_outcome(a, size) ==
    IF a = {} /\ size.val # 0 THEN "ValueError"
    ELSE IF size.type = "float" THEN "TypeError"
    ELSE IF size.val > Cardinality(a) THEN "ValueError"
    ELSE "drawn"

choice_draws(a, size) == {S \in SUBSET a : Cardinality(S) = size.val}

\* the cluster ids of the membership dict in dict order, and the clusters
\* below / from the size min_size_mc in that order
cluster_ids(g) == AscSeq(DOMAIN g.community_nodes)

small_cluster_ids(g, m) ==
    SelectSeq(cluster_ids(g), LAMBDA k : Cardinality(g.community_nodes[k]) < m)

multi_cluster_ids_all(g, m) == cluster_ids(g)

\* the ids of the clusters of at least m nodes, line 48
multi_cluster_ids(g, m) ==
    SelectSeq(cluster_ids(g), LAMBDA k : Cardinality(g.community_nodes[k]) >= m)

\* the concatenation of the node lists of the clusters ids, in order
RECURSIVE nodes_of_clusters(_, _)
nodes_of_clusters(g, ids) ==
    IF ids = <<>> THEN <<>>
    ELSE AscSeq(g.community_nodes[ids[1]]) \o nodes_of_clusters(g, Tail(ids))

\* lines 54-62: the nodes of the list for which some (no) multi-cluster is
\* without connection
needs_combination(g, node, clusters) ==
    \E i \in DOMAIN clusters : ~check_node_cluster_con(g, node, clusters[i])

combination_requests_all(g, cnodes, clusters) ==
    [i \in 1 .. (Len(cnodes) * Len(clusters)) |->
        <<cnodes[((i - 1) \div Len(clusters)) + 1], ((i - 1) % Len(clusters)) + 1>>]

\* _combination_phase: the (node, cluster) pairs without connection, node by
\* node and cluster by cluster
combination_requests(g, cnodes, clusters) ==
    LET n == Len(clusters)
        all == [i \in 1 .. (Len(cnodes) * n) |->
                    <<cnodes[((i - 1) \div n) + 1], ((i - 1) % n) + 1>>]
    IN  SelectSeq(all, LAMBDA r : ~check_node_cluster_con(g, r[1], clusters[r[2]]))

walk_candidates_any(enodes, node) == {enodes[i] : i \in DOMAIN enodes}

\* line 117: the nodes of the list other than last_node
walk_candidates(enodes, node) == {enodes[i] : i \in DOMAIN enodes} \ {node}

\* the values a caller sets params['random_sample_empty_round'] to
FallbackValues == {0, 2}

\* the argument random_sample_empty_round of utils dwug_sampling: line 120
\* of the strategy-level function hands over six arguments and never reads
\* params['random_sample_empty_round'], so the default 0 of line 8 is used
random_sample_empty_round == 0

\* random_sampling(trueGraph, {'sample_size': k}): the lists of k triples
\* (u, v, trueGraph.get_edge(u, v)), u < v two nodes of random.sample
random_sampling(g, k) ==
    LET pairs == {p \in g.nodes \X g.nodes : p[1] < p[2]}
    IN  {[i \in 1 .. k |-> <<c[i][1], c[i][2], sample_get_edge(g, c[i][1], c[i][2])>>] :
            c \in [1 .. k -> pairs]}

\* the guard phase of sampling_strategy.dwug_sampling (lines 102-118); the
\* graphs are BaseGraphs and min_size_mc, num_flag an int and a bool here
guard_phase(g, pn, pe) ==
    /\ \/ pn.type = "float" /\ 0 <= pn.val /\ pn.val <= 4
       \/ pn.type = "int" /\ 0 <= pn.val /\ pn.val <= get_number_nodes(g)
    /\ \/ pe.type = "float" /\ 0 <= pe.val /\ pe.val <= 4
       \/ pe.type = "int" /\ 0 <= pe.val /\ pe.val <= get_number_edges(g)

\* ---- the inputs of a round
\* the ground truths: the complete graph on MaxTrueNodes - 1 nodes, and on
\* MaxTrueNodes nodes the complete graph without the pair (0, MaxTrueNodes - 1)
TruePairs(n) == {e \in (0 .. (n - 1)) \X (0 .. (n - 1)) : e[1] < e[2]}

SampleGraphs ==
    { [nodes |-> 0 .. (MaxTrueNodes - 2),
       weight |-> [e \in TruePairs(MaxTrueNodes - 1) |-> 8]],
      [nodes |-> 0 .. (MaxTrueNodes - 1),
       weight |-> [e \in TruePairs(MaxTrueNodes) \ {<<0, MaxTrueNodes - 1>>} |-> 8]] }

\* the judgements earlier rounds may have recorded, in recording order
JudgementPool == << <<0, 1, 4>>, <<2, 3, 1>>, <<0, 2, 0>>, <<1, 2, 4>> >>

\* the sublist of a list at the positions I
RECURSIVE Sublist(_, _)
Sublist(l, I) ==
    IF l = <<>> THEN <<>>
    ELSE LET rest == Sublist(Tail(l), {i - 1 : i \in I \ {1}})
         IN  IF 1 \in I THEN <<l[1]>> \o rest ELSE rest

\* the annotated graphs a round can meet on the ground truth g: up to
\* MaxRecorded judgements of the pool on nodes of g, then either no
\* clustering pass or one that wrote a partition of the graph's nodes
AnnotatedInputs(g) ==
    LET lists == { Sublist(JudgementPool, I) :
                     I \in {J \in SUBSET DOMAIN JudgementPool :
                              /\ Cardinality(J) <= MaxRecorded
                              /\ \A i \in J : JudgementPool[i][2] \in g.nodes} }
        graphs == { add_edges(AnnotatedGraph(get_number_nodes(g)), l) : l \in lists }
        dicts(a) == {EmptyDict} \cup
                    { LET cl == SortedByFirst(P)
                      IN  [k \in 0 .. (Len(cl) - 1) |-> cl[k + 1]] :
                      P \in Partitions(a.G_nodes) \ {{}} }
    IN  UNION { { update_community_nodes_membership(a, d) : d \in dicts(a) } :
                a \in graphs }

PercentageNodes == {FloatVal(2), FloatVal(3), IntVal(1), IntVal(2), IntVal(MaxTrueNodes + 1)}
PercentageEdges == {FloatVal(2), FloatVal(4), IntVal(1), IntVal(2)}
MinSizes == {1, 2}

\* the walk of the round stays within MaxWalk pairs
WithinWalkBound ==
    LET len == IF annotated_number_edges(ag) = 0 THEN get_number_nodes(sample_graph)
               ELSE Len(nodes_of_clusters(ag, small_cluster_ids(ag, min_size_mc)))
    IN  len >= 2 => max_edges_of(len, percentage_edges, num_flag) <= 8 * MaxWalk

InitDWUG ==
    /\ canon = NewAnnotatedGraph
    /\ CcsIdle /\ StopIdle /\ SimIdle /\ CcIdle
    /\ sample_graph \in SampleGraphs
    /\ ag \in AnnotatedInputs(sample_graph)
    /\ percentage_nodes \in PercentageNodes
    /\ percentage_edges \in PercentageEdges
    /\ min_size_mc \in MinSizes
    /\ num_flag \in BOOLEAN
    /\ fallback_param \in FallbackValues
    /\ WithinWalkBound
    /\ multi_clusters = <<>>
    /\ combination_nodes = <<>>
    /\ exploration_nodes = <<>>
    /\ new_nodes = <<>>
    /\ max_edges = 0
    /\ sampled_edge_list = <<>>
    /\ exploration_edge_list = <<>>
    /\ last_node = None
    /\ dpc = "guard"

\* ---- the steps of a round
\* sampling_strategy.dwug_sampling: the guard phase, then line 21 of
\* utils/dwug_sampling.py picks the initial or a subsequent round
GuardPhase ==
    /\ dpc = "guard"
    /\ dpc' = IF ~guard_phase(sample_graph, percentage_nodes, percentage_edges)
              THEN "AssertionError"
              ELSE IF annotated_number_edges(ag) = 0 THEN "z_round" ELSE "n_round"
    /\ UNCHANGED <<ag, canon, ccs_vars, stop_vars, sim_vars, cc_vars, sample_graph,
                   percentage_nodes, percentage_edges, min_size_mc, num_flag, fallback_param,
                   multi_clusters, combination_nodes, exploration_nodes, new_nodes,
                   max_edges, sampled_edge_list, exploration_edge_list, last_node>>

\* _z_sampling_round: the nodes of the initial round and the edge budget; the
\* order of the drawn nodes plays no part in the walk and is kept ascending
ZSamplingRound ==
    /\ dpc = "z_round"
    /\ LET number_nodes == number_nodes_of(sample_graph, percentage_nodes, num_flag)
           outcome == choice_outcome(sample_graph.nodes, number_nodes)
       IN  \/ /\ outcome = "TypeError"
              /\ dpc' = "TypeError"
              /\ UNCHANGED <<exploration_nodes, max_edges>>
           \/ /\ outcome # "TypeError"
              /\ \E S \in (IF outcome = "ValueError" THEN {sample_graph.nodes}
                           ELSE choice_draws(sample_graph.nodes, number_nodes)) :
                    /\ exploration_nodes' = AscSeq(S)
                    /\ max_edges' = max_edges_of(Cardinality(S), percentage_edges, num_flag)
              /\ dpc' = "exploration"
    /\ UNCHANGED <<ag, canon, ccs_vars, stop_vars, sim_vars, cc_vars, sample_graph,
                   percentage_nodes, percentage_edges, min_size_mc, num_flag, fallback_param,
                   multi_clusters, combination_nodes, new_nodes,
                   sampled_edge_list, exploration_edge_list, last_node>>

\* _n_sampling_round up to line 74: the multi-clusters, the nodes of the
\* small clusters split into combination and exploration nodes, the fresh
\* nodes, the edge budget
NSamplingRound ==
    /\ dpc = "n_round"
    /\ LET nodes == nodes_of_clusters(ag, small_cluster_ids(ag, min_size_mc))
           ids == multi_cluster_ids(ag, min_size_mc)
           mcs == [i \in DOMAIN ids |-> ag.community_nodes[ids[i]]]
           comb == SelectSeq(nodes, LAMBDA node : needs_combination(ag, node, mcs))
           expl == SelectSeq(nodes, LAMBDA node : ~needs_combination(ag, node, mcs))
           not_added_nodes == sample_graph.nodes \ ag.G_nodes
           num_new_nodes_add == number_nodes_of(sample_graph, percentage_nodes, num_flag)
           outcome == choice_outcome(not_added_nodes, num_new_nodes_add)
       IN  /\ multi_clusters' = mcs
           /\ exploration_nodes' = expl
           /\ \/ /\ outcome = "TypeError"
                 /\ dpc' = "TypeError"
                 /\ combination_nodes' = comb
                 /\ UNCHANGED <<new_nodes, max_edges>>
              \/ /\ outcome # "TypeError"
                 /\ \E S \in (IF outcome = "ValueError" THEN {not_added_nodes}
                              ELSE choice_draws(not_added_nodes, num_new_nodes_add)) :
                      \E order \in NodeOrders(S) :
                         /\ new_nodes' = order
                         /\ combination_nodes' = comb \o order
                 /\ max_edges' = max_edges_of(Len(expl), percentage_edges, num_flag)
                 /\ dpc' = "combination"
    /\ UNCHANGED <<ag, canon, ccs_vars, stop_vars, sim_vars, cc_vars, sample_graph,
                   percentage_nodes, percentage_edges, min_size_mc, num_flag, fallback_param,
                   sampled_edge_list, exploration_edge_list, last_node>>

\* _combination_phase: one triple (node, connection, weight) for every
\* combination node and every multi-cluster without connection to it, the
\* connection any member of the cluster
CombinationPhase ==
    /\ dpc = "combination"
    /\ LET req == combination_requests(ag, combination_nodes, multi_clusters)
           members == UNION {multi_clusters[i] : i \in DOMAIN multi_clusters}
       IN  \E connection \in [DOMAIN req -> members] :
              /\ \A i \in DOMAIN req : connection[i] \in multi_clusters[req[i][2]]
              /\ sampled_edge_list' =
                    [i \in DOMAIN req |->
                        <<req[i][1], connection[i],
                          sample_get_edge(sample_graph, req[i][1], connection[i])>>]
    /\ dpc' = "exploration"
    /\ UNCHANGED <<ag, canon, ccs_vars, stop_vars, sim_vars, cc_vars, sample_graph,
                   percentage_nodes, percentage_edges, min_size_mc, num_flag, fallback_param,
                   multi_clusters, combination_nodes, exploration_nodes, new_nodes,
                   max_edges, exploration_edge_list, last_node>>

\* _exploration_phase, lines 110-114: nothing for fewer than 2 nodes, else
\* the walk starts at any node of the list
ExplorationStart ==
    /\ dpc = "exploration"
    /\ IF Len(exploration_nodes) = 0 \/ Len(exploration_nodes) = 1
       THEN /\ dpc' = "return"
            /\ UNCHANGED last_node
       ELSE /\ \E node \in RangeOf(exploration_nodes) : last_node' = node
            /\ dpc' = "walk"
    /\ UNCHANGED <<ag, canon, ccs_vars, stop_vars, sim_vars, cc_vars, sample_graph,
                   percentage_nodes, percentage_edges, min_size_mc, num_flag, fallback_param,
                   multi_clusters, combination_nodes, exploration_nodes, new_nodes,
                   max_edges, sampled_edge_list, exploration_edge_list>>

\* one turn of the loop of lines 116-119
ExplorationStep ==
    /\ dpc = "walk"
    /\ 8 * Len(exploration_edge_list) < max_edges
    /\ \E next_node \in walk_candidates(exploration_nodes, last_node) :
          /\ exploration_edge_list' =
                Append(exploration_edge_list,
                       <<last_node, next_node,
                         sample_get_edge(sample_graph, last_node, next_node)>>)
          /\ last_node' = next_node
    /\ UNCHANGED <<ag, canon, ccs_vars, stop_vars, sim_vars, cc_vars, sample_graph,
                   percentage_nodes, percentage_edges, min_size_mc, num_flag, fallback_param,
                   multi_clusters, combination_nodes, exploration_nodes, new_nodes,
                   max_edges, sampled_edge_list, dpc>>

\* the loop is left and the walk goes back to the round (line 121)
ExplorationReturn ==
    /\ dpc = "walk"
    /\ ~(8 * Len(exploration_edge_list) < max_edges)
    /\ dpc' = "return"
    /\ UNCHANGED <<ag, canon, ccs_vars, stop_vars, sim_vars, cc_vars, sample_graph,
                   percentage_nodes, percentage_edges, min_size_mc, num_flag, fallback_param,
                   multi_clusters, combination_nodes, exploration_nodes, new_nodes,
                   max_edges, sampled_edge_list, exploration_edge_list, last_node>>

\* the round returns: the walk of the initial round (line 23), else the
\* combination triples followed by the walk (lines 77-81), replaced by
\* random_sampling when they are none and random_sample_empty_round > 0
\* (lines 26-27)
DwugReturn ==
    /\ dpc = "return"
    /\ LET edges == sampled_edge_list \o exploration_edge_list
       IN  IF /\ annotated_number_edges(ag) # 0
              /\ Len(edges) = 0
              /\ random_sample_empty_round > 0
           THEN IF get_number_nodes(sample_graph) < 2
                THEN /\ dpc' = "ValueError"
                     /\ UNCHANGED sampled_edge_list
                ELSE /\ sampled_edge_list' \in
                            random_sampling(sample_graph, random_sample_empty_round)
                     /\ dpc' = "done"
           ELSE /\ sampled_edge_list' = edges
                /\ dpc' = "done"
    /\ UNCHANGED <<ag, canon, ccs_vars, stop_vars, sim_vars, cc_vars, sample_graph,
                   percentage_nodes, percentage_edges, min_size_mc, num_flag,
                   fallback_param, multi_clusters, combination_nodes,
                   exploration_nodes, new_nodes, max_edges,
                   exploration_edge_list, last_node>>

NextDWUG ==
    \/ GuardPhase
    \/ ZSamplingRound
    \/ NSamplingRound
    \/ CombinationPhase
    \/ ExplorationStart
    \/ ExplorationStep
    \/ ExplorationReturn
    \/ DwugReturn

\* one round of the DWUG sampler on any ground truth and annotated graph
SpecDWUG == InitDWUG /\ [][NextDWUG]_vars

\* the same, with every step that can be taken taken in the end
FairSpecDWUG == SpecDWUG /\ WF_vars(NextDWUG)

\* --------------------------------------------- convergence stopping criteria
\* the simulations of one process that use apd_convergence as their
\* stopping criterion
Simulations == 1 .. MaxSimulations

\* the values apd(graph, sample_size) can take (the mean weight of a random
\* sample of pairs of the graph)
ApdValues == {0, 1}

\* the values of params['timesteps']
TimestepValues == {2, 3}

\* _rmse(_apd_time_steps[-timesteps:]) < threshold: sklearn's
\* mean_squared_error on the slice of (index, value) tuples and a list of
\* their overall mean either yields a number, compared with the threshold,
\* or raises ValueError for the differently shaped arguments
rmse_below_threshold == {"True", "False", "ValueError"}

InitStopping ==
    /\ ag = NewAnnotatedGraph
    /\ canon = NewAnnotatedGraph
    /\ CcsIdle /\ DwugIdle /\ SimIdle /\ CcIdle
    /\ apd_time_steps = <<>>
    /\ timesteps \in TimestepValues
    /\ appended_by = <<>>
    /\ evaluated_by = 0
    /\ evaluated_slice = <<>>
    /\ apd_result = "None"
    /\ CritIdle

\* apd_convergence(graph, params), called by the simulation sim: the
\* observation is appended to the module-level list; with fewer than
\* timesteps entries the call returns False, else the last timesteps entries
\* are evaluated
ApdConvergence(sim) ==
    /\ Len(apd_time_steps) < MaxStopCalls
    /\ \E value \in ApdValues :
        LET steps  == Append(apd_time_steps, <<Len(apd_time_steps), value>>)
            owners == Append(appended_by, sim)
        IN  /\ apd_time_steps' = steps
            /\ appended_by' = owners
            /\ IF Len(steps) < timesteps
               THEN /\ apd_result' = "False"
                    /\ UNCHANGED <<evaluated_by, evaluated_slice>>
               ELSE /\ evaluated_by' = sim
                    /\ evaluated_slice' =
                          SubSeq(owners, Len(steps) - timesteps + 1, Len(steps))
                    /\ apd_result' \in rmse_below_threshold
    /\ UNCHANGED <<ag, canon, ccs_vars, dwug_vars, sim_vars, cc_vars, timesteps,
                   crit_vars>>

\* apd_convergence_reset(): the list is emptied
ApdConvergenceReset ==
    /\ apd_time_steps # <<>>
    /\ apd_time_steps' = <<>>
    /\ appended_by' = <<>>
    /\ UNCHANGED <<ag, canon, ccs_vars, dwug_vars, sim_vars, cc_vars, timesteps,
                   evaluated_by, evaluated_slice, apd_result, crit_vars>>

NextStopping ==
    \/ \E sim \in Simulations : ApdConvergence(sim)
    \/ ApdConvergenceReset

\* simulations of one process calling apd_convergence in any order, the
\* caller free to reset in between
SpecStopping == InitStopping /\ [][NextStopping]_vars

\* ------------------------------------------------------------- simulation
\* the membership dicts of the partitions of the node set S into clusters
\* 0 .. k-1, the empty dict for no nodes
PartitionDicts(S) ==
    IF S = {} THEN {EmptyDict}
    ELSE { LET cl == SortedByFirst(P)
           IN  [k \in 0 .. (Len(cl) - 1) |-> cl[k + 1]] :
           P \in Partitions(S) \ {{}} }

\* what a sampling strategy can hand back in one round: no edge, or one
\* judged pair (u, v, w) of two nodes
SampledEdgeLists ==
    {<<>>} \cup
    { << <<e[1], e[2], w>> >> :
        e \in {p \in Nodes \X Nodes : p[1] # p[2]}, w \in {0, 4} }

\* what a sampling strategy can hand back in one round: a list of
\* SampledEdgeLists, or one pair that is no edge of the true graph, whose
\* weight trueGraph.get_edge(u, v) is None
SamplerOutputs ==
    SampledEdgeLists \cup
    { << <<e[1], e[2], None>> >> : e \in {p \in Nodes \X Nodes : p[1] # p[2]} }

\* add_edge(node_u, node_v, None): line 63 keeps None, line 67 appends it to
\* the history of the pair, and np.nanmedian of a list holding None raises
\* TypeError in line 69; the graph when the error leaves add_edge
add_edge_none(g, node_u, node_v) ==
    LET e   == sorted(node_u, node_v)
        old == IF ~HasKey(g.edge_added_weights, e)
               THEN <<>> ELSE g.edge_added_weights[e]
    IN  [g EXCEPT !.edge_added_weights = Put(@, e, Append(old, None))]

\* add_edges(edge_list) with weights that may be None: the graph it leaves
\* and whether it raised
RECURSIVE add_edges_outcome(_, _)
add_edges_outcome(g, edge_list) ==
    IF edge_list = <<>> THEN [graph |-> g, raised |-> FALSE]
    ELSE IF edge_list[1][3] = None
         THEN [graph  |-> add_edge_none(g, edge_list[1][1], edge_list[1][2]),
               raised |-> TRUE]
         ELSE add_edges_outcome(
                  add_edge(g, edge_list[1][1], edge_list[1][2], edge_list[1][3]),
                  Tail(edge_list))

after_criterion_ignored(stop) == "loop"

\* lines 67-68: break when the criterion returned True, else the next round
after_criterion(stop) == IF stop THEN "return" ELSE "loop"

\* simulation(trueGraph, simulationGraph, max_iter, ..., **params) with a
\* sampling strategy and a stopping criterion, on a new simulation graph
InitSim ==
    /\ ag = NewAnnotatedGraph
    /\ canon = NewAnnotatedGraph
    /\ CcsIdle /\ DwugIdle /\ StopIdle /\ CcIdle
    /\ max_iter \in 0 .. MaxIter
    /\ clustering_flag \in BOOLEAN
    /\ loop_i = None
    /\ broke = FALSE
    /\ sampled_edges = <<>>
    /\ sim_clusters = EmptyDict
    /\ round_start = NewAnnotatedGraph
    /\ round_log = <<>>
    /\ sim_result = [kind |-> "running"]
    /\ spc = "loop"

\* line 56: the loop variable takes the next value of range(max_iter), or
\* the loop is over
LoopHead ==
    /\ spc = "loop"
    /\ LET next == IF loop_i = None THEN 0 ELSE loop_i + 1
       IN  IF next < max_iter
           THEN /\ loop_i' = next
                /\ round_start' = ag
                /\ round_log' = <<>>
                /\ spc' = "sampling"
           ELSE /\ spc' = "return"
                /\ UNCHANGED <<loop_i, round_start, round_log>>
    /\ UNCHANGED <<ag, canon, ccs_vars, dwug_vars, stop_vars, cc_vars, max_iter,
                   clustering_flag, broke, sampled_edges, sim_clusters, sim_result>>

\* lines 58-59: the sampled edges are added to the simulation graph; an
\* error of add_edge ends the call
SamplingPhase ==
    /\ spc = "sampling"
    /\ \E l \in SamplerOutputs :
        LET outcome == add_edges_outcome(ag, l)
        IN  /\ sampled_edges' = l
            /\ ag' = outcome.graph
            /\ IF outcome.raised
               THEN /\ sim_result' = [kind |-> "raised", value |-> <<"TypeError">>]
                    /\ spc' = "done"
               ELSE /\ spc' = IF clustering_flag THEN "clustering" ELSE "stopping"
                    /\ UNCHANGED sim_result
    /\ round_log' = Append(round_log, "sampling")
    /\ UNCHANGED <<canon, ccs_vars, dwug_vars, stop_vars, cc_vars, max_iter,
                   clustering_flag, loop_i, broke, sim_clusters, round_start>>

\* lines 62-64: the clusters of the clustering strategy are written back
ClusteringPhase ==
    /\ spc = "clustering"
    /\ \E c \in PartitionDicts(ag.G_nodes) :
          /\ sim_clusters' = c
          /\ ag' = update_community_nodes_membership(ag, c)
    /\ round_log' = Append(round_log, "clustering")
    /\ spc' = "stopping"
    /\ UNCHANGED <<canon, ccs_vars, dwug_vars, stop_vars, cc_vars, max_iter,
                   clustering_flag, loop_i, broke, sampled_edges, round_start,
                   sim_result>>

\* lines 67-68: the stopping criterion is asked; on True the loop is left
StoppingPhase ==
    /\ spc = "stopping"
    /\ \E stop \in BOOLEAN :
          /\ broke' = stop
          /\ spc' = after_criterion(stop)
    /\ round_log' = Append(round_log, "stopping")
    /\ UNCHANGED <<ag, canon, ccs_vars, dwug_vars, stop_vars, cc_vars, max_iter,
                   clustering_flag, loop_i, sampled_edges, sim_clusters, round_start,
                   sim_result>>

\* line 70: return (trueGraph, simulationGraph, _ + 1 >= max_iter); the
\* loop variable is unbound when the loop body never ran
SimulationReturn ==
    /\ spc = "return"
    /\ sim_result' =
          IF loop_i = None
          THEN [kind |-> "raised", value |-> <<"UnboundLocalError">>]
          ELSE [kind |-> "returned",
                value |-> <<"trueGraph", "simulationGraph", loop_i + 1 >= max_iter>>]
    /\ spc' = "done"
    /\ UNCHANGED <<ag, canon, ccs_vars, dwug_vars, stop_vars, cc_vars, max_iter,
                   clustering_flag, loop_i, broke, sampled_edges, sim_clusters,
                   round_start, round_log>>

NextSim ==
    \/ LoopHead
    \/ SamplingPhase
    \/ ClusteringPhase
    \/ StoppingPhase
    \/ SimulationReturn

\* one call of simulation with any strategies
SpecSim == InitSim /\ [][NextSim]_vars

\* ------------------------------------------------- correlation_clustering
\* the dicts params handed to correlation_clustering: s, max_attempts and
\* max_iters as typed numbers, weights as the name of a weight table
ClusteringParams ==
    [ s            : {IntVal(2), IntVal(10), FloatVal(8)},
      weights      : {"edge_weight", "edge_soft_weight"},
      max_attempts : {IntVal(200), FloatVal(8)},
      max_iters    : {IntVal(500), FloatVal(8)} ]

\* the guard phase of correlation_clustering (lines 24-36): after the
\* assertion that s is an int, the assertion meant for weights asks s to be
\* a str
guard_phase_clustering(p) ==
    /\ p.s.type = "int"
    /\ p.s.type = "str"
    /\ p.max_attempts.type = "int"
    /\ p.max_iters.type = "int"

InitClustering ==
    /\ ag \in {add_edges(NewAnnotatedGraph, l) : l \in SampledEdgeLists}
    /\ canon = NewAnnotatedGraph
    /\ CcsIdle /\ DwugIdle /\ StopIdle /\ SimIdle
    /\ cc_params \in ClusteringParams
    /\ community_node = [kind |-> "none"]
    /\ cpc = "call"

\* correlation_clustering(simulationGraph, params): the guard phase, then
\* the clusters of cluster_correlation_search, a partition of the nodes of
\* the graph, as a dict cluster id -> nodes
CorrelationClustering ==
    /\ cpc = "call"
    /\ IF guard_phase_clustering(cc_params)
       THEN \E d \in PartitionDicts(ag.G_nodes) :
                community_node' = [kind |-> "returned", value |-> d]
       ELSE community_node' = [kind |-> "raised", value |-> <<"AssertionError">>]
    /\ cpc' = "done"
    /\ UNCHANGED <<ag, canon, ccs_vars, dwug_vars, stop_vars, sim_vars, cc_params>>

NextClustering == CorrelationClustering

\* one call of correlation_clustering on any simulation graph and params
SpecClustering == InitClustering /\ [][NextClustering]_vars

\* -------------------------------------------------------- cluster_connected
\* the clustered graphs a stopping criterion can be asked about
ClusteredGraphs == UNION {AnnotatedInputs(g) : g \in SampleGraphs}

\* params['min_num_edges'] == 'fully'
Fully == [type |-> "str", val |-> 0]

\* the dicts params of cluster_connected; min_size_one_cluster None when the
\* key is absent
ConnectedParams ==
    [ cluster_min_size     : {1, 2},
      min_num_edges        : {IntVal(0), IntVal(1), IntVal(2), Fully},
      min_size_one_cluster : {None, 1, 2, 3} ]

\* BaseGraph.get_number_nodes of the annotated graph
annotated_number_nodes(g) == Cardinality(g.G_nodes)

\* check_connectivity_two_clusters: count rises by one for every pair (u, v)
\* of the two communities that is an edge, and True is returned as soon as a
\* count reached by such a step is >= min_connections
check_connectivity_two_clusters(edge_list, f_community, s_community, min_connections) ==
    LET total == Cardinality({p \in f_community \X s_community :
                                 sorted(p[1], p[2]) \in edge_list})
    IN  \E count \in 1 .. total : count >= min_connections

\* cluster_connected(graph, params) after its guard phase (lines 42-63)
cluster_connected(g, p) ==
    LET ids == multi_cluster_ids(g, p.cluster_min_size)
        communities == [i \in DOMAIN ids |-> g.community_nodes[ids[i]]]
        min_size_one_cluster ==
            IF p.min_size_one_cluster = None THEN annotated_number_nodes(g)
            ELSE p.min_size_one_cluster
        min_connections(i, j) ==
            IF p.min_num_edges # Fully THEN p.min_num_edges.val
            ELSE Cardinality(communities[i]) * Cardinality(communities[j])
    IN  IF Len(communities) = 0 THEN FALSE
        ELSE IF Len(communities) = 1
             THEN Cardinality(communities[1]) >= min_size_one_cluster
             ELSE \A i \in DOMAIN communities : \A j \in DOMAIN communities :
                     i < j => check_connectivity_two_clusters(
                                  DOMAIN g.G_edges, communities[i], communities[j],
                                  min_connections(i, j))

InitConnected ==
    /\ ag \in ClusteredGraphs
    /\ canon = NewAnnotatedGraph
    /\ CcsIdle /\ DwugIdle /\ SimIdle /\ CcIdle /\ ApdIdle /\ CscIdle
    /\ conn_params \in ConnectedParams
    /\ conn_result = "None"

\* the call of cluster_connected(graph, params)
ClusterConnected ==
    /\ conn_result = "None"
    /\ conn_params # EmptyDict
    /\ conn_result' = IF cluster_connected(ag, conn_params) THEN "True" ELSE "False"
    /\ UNCHANGED <<ag, canon, ccs_vars, dwug_vars, sim_vars, cc_vars,
                   apd_time_steps, timesteps, appended_by, evaluated_by,
                   evaluated_slice, apd_result, conn_params, num_clusters,
                   csc_params, csc_result>>

NextConnected == ClusterConnected

\* one call of cluster_connected on any clustered graph and params
SpecConnected == InitConnected /\ [][NextConnected]_vars

\* ------------------------------------------------- cluster_size_change_conv
\* the dicts params of cluster_size_change_conv: timesteps and threshold as
\* typed numbers (threshold in quarters), error_func 'mse' or 'rmse'
ClusterSizeParams ==
    [ timesteps  : {IntVal(1), IntVal(2), FloatVal(8)},
      threshold  : {FloatVal(1), FloatVal(4), IntVal(1)},
      error_func : {"mse", "rmse"} ]

\* BaseGraph.get_number_communities
get_number_communities(g) == Cardinality(DOMAIN g.community_nodes)

RECURSIVE SumSeq(_)
SumSeq(l) == IF l = <<>> THEN 0 ELSE l[1] + SumSeq(Tail(l))

\* T * T times the mean squared error of the series about its mean
\* (mse_mean, lines 117-119), T its length
squared_error_TT(time_series) ==
    LET T == Len(time_series)
    IN  T * SumSeq([i \in DOMAIN time_series |-> time_series[i] * time_series[i]])
          - SumSeq(time_series) * SumSeq(time_series)

\* error_func(window) < threshold for the threshold q quarters: the MSE,
\* or its root for 'rmse' (rmse_mean, lines 122-124)
error_below_threshold(error_func, window, q) ==
    LET T == Len(window)
    IN  IF error_func = "rmse"
        THEN q > 0 /\ 16 * squared_error_TT(window) < q * q * T * T
        ELSE 4 * squared_error_TT(window) < q * T * T

\* the guard phase of cluster_size_change_conv (lines 123-130): the
\* assertion written for error_func asks threshold to be a str
guard_phase_cluster_size(p) ==
    /\ p.timesteps.type = "int"
    /\ p.threshold.type = "float"
    /\ p.threshold.type = "str"

InitClusterSize ==
    /\ ag \in ClusteredGraphs
    /\ canon = NewAnnotatedGraph
    /\ CcsIdle /\ DwugIdle /\ SimIdle /\ CcIdle /\ ApdIdle /\ ConnIdle
    /\ num_clusters = <<>>
    /\ csc_params \in ClusterSizeParams
    /\ csc_result = "None"

\* cluster_size_change_conv(graph, params), once per round: the guard phase,
\* then the number of communities is appended to the module-level list and
\* the last timesteps entries are evaluated
ClusterSizeChangeConv ==
    /\ csc_params # EmptyDict
    /\ Len(num_clusters) < MaxStopCalls
    /\ IF ~guard_phase_cluster_size(csc_params)
       THEN /\ csc_result' = "AssertionError"
            /\ UNCHANGED num_clusters
       ELSE LET list == Append(num_clusters, get_number_communities(ag))
                T    == csc_params.timesteps.val
            IN  /\ num_clusters' = list
                /\ csc_result' =
                      IF Len(list) < T THEN "False"
                      ELSE IF error_below_threshold(
                                  csc_params.error_func,
                                  SubSeq(list, Len(list) - T + 1, Len(list)),
                                  csc_params.threshold.val)
                           THEN "True" ELSE "False"
    /\ UNCHANGED <<ag, canon, ccs_vars, dwug_vars, sim_vars, cc_vars,
                   apd_time_steps, timesteps, appended_by, evaluated_by,
                   evaluated_slice, apd_result, conn_params, conn_result,
                   csc_params>>

NextClusterSize == ClusterSizeChangeConv

\* the calls of cluster_size_change_conv on a clustered graph
SpecClusterSize == InitClusterSize /\ [][NextClusterSize]_vars

\* ================================================================ claims
\* the numeric (non-MISSING) judgements of a history, in recording order
Numeric(h) == SelectSeq(h, LAMBDA x : x # NaN)

\* the median of a non-empty list of numbers, in half units: the list is
\* sorted; the middle entry counts twice, or the two middle entries are added
MedianOfNumeric(h) ==
    LET srt == SortSeq(Numeric(h), LAMBDA a, b : a < b)
        n   == Len(srt)
    IN  srt[(n + 1) \div 2] + srt[(n + 2) \div 2]

AllMissing(h) == \A i \in 1 .. Len(h) : h[i] = NaN

RECURSIVE SumLen(_, _)
SumLen(d, keys) ==
    IF keys = {} THEN 0
    ELSE LET k == CHOOSE x \in keys : TRUE
         IN  Len(d[k]) + SumLen(d, keys \ {k})

\* the number of judgements appended over all pairs, MISSING ones included
TotalAppends(g) == SumLen(g.edge_added_weights, DOMAIN g.edge_added_weights)

\* C1: every materialized edge's stored weight (edge table and graph) is the
\* median of the numeric judgements of its history, and its soft weight is that
\* weight minus 2.5; edge table, soft weights and graph hold the same edges
C1_WeightIsMedian ==
    /\ DOMAIN ag.edge_soft_weight = DOMAIN ag.edge_weight
    /\ DOMAIN ag.G_edges = DOMAIN ag.edge_weight
    /\ \A e \in DOMAIN ag.edge_weight :
        /\ e \in DOMAIN ag.edge_added_weights
        /\ Numeric(ag.edge_added_weights[e]) # <<>>
        /\ ag.edge_weight[e] = MedianOfNumeric(ag.edge_added_weights[e])
        /\ ag.G_edges[e] = ag.edge_weight[e]
        /\ ag.edge_soft_weight[e] = ag.edge_weight[e] - 5

\* recording 3, 4, MISSING, 1 on (0,1): weight 3.0, soft weight 0.5, 4 judgements
C1_Witness ==
    /\ <<0, 1>> \in DOMAIN ag.edge_weight
    /\ ag.edge_added_weights[<<0, 1>>] = <<3, 4, NaN, 1>>
    /\ ag.edge_weight[<<0, 1>>] = 6
    /\ ag.edge_soft_weight[<<0, 1>>] = 1
    /\ ag.judgements = 4

\* C2: the judgement counter equals the number of judgements appended over
\* all pairs (MISSING included), one add_edge call raises it by exactly 1, and
\* no step lowers it
C2_JudgementCount ==
    /\ [](/\ get_num_added_edges(ag) = TotalAppends(ag)
          /\ \A a \in EdgeArgs :
                get_num_added_edges(add_edge(ag, a[1], a[2], a[3]))
                    = get_num_added_edges(ag) + 1)
    /\ [][get_num_added_edges(ag') >= get_num_added_edges(ag)]_vars

\* a MISSING and two numeric judgements were recorded, one by a batch
C2_Witness ==
    /\ ag.judgements = 3
    /\ \E e \in DOMAIN ag.edge_added_weights :
        /\ AllMissing(ag.edge_added_weights[e])
        /\ e \notin DOMAIN ag.edge_weight
    /\ \E e \in DOMAIN ag.edge_weight : Len(ag.edge_added_weights[e]) = 2

\* the pairs (u, v) all of whose judgements so far are MISSING
PairAllMissing(g, u, v) ==
    /\ HasKey(g.edge_added_weights, sorted(u, v))
    /\ AllMissing(g.edge_added_weights[sorted(u, v)])

WithoutLastEdge(g) == [g EXCEPT !.last_edge = <<>>]

\* C4 as claimed: the graph whose judgements came with swapped endpoints and
\* the graph that got them in canonical order are equal in every field,
\* last_edge (and so the last added node) included
C4_SwapIndistinguishable ==
    (/\ ag.last_edge # <<>>
     /\ Len(ag.edge_added_weights[sorted(ag.last_edge[1], ag.last_edge[2])]) >= 2)
        => ag = canon

\* C4 amended: the two graphs agree in histories, weights, soft weights, edge
\* set, reverse index and judgement count; last_edge holds the endpoints in
\* the order of the last call, so after add_edge(v, u, y) the last added node
\* is u where the canonical run has max(u, v)
C4_SwapSameButLastEdge ==
    /\ WithoutLastEdge(ag) = WithoutLastEdge(canon)
    /\ ag.last_edge = <<>> <=> canon.last_edge = <<>>
    /\ ag.last_edge # <<>> =>
        /\ canon.last_edge = sorted(ag.last_edge[1], ag.last_edge[2])
        /\ get_last_added_node(canon) = Max2(ag.last_edge[1], ag.last_edge[2])
        /\ get_last_added_node(ag) = ag.last_edge[2]

\* (0,1) was judged twice, the last time as (1,0)
C4_Witness ==
    /\ ag.last_edge = <<1, 0>>
    /\ canon.last_edge = <<0, 1>>
    /\ HasKey(ag.edge_added_weights, <<0, 1>>)
    /\ Len(ag.edge_added_weights[<<0, 1>>]) = 2
    /\ <<0, 1>> \in DOMAIN ag.edge_weight
    /\ ag.judgements = 2

\* C5 as claimed: a judgement on a pair (n, n) is rejected, so no history
\* entry, edge (self-loop) or last_edge of a self-pair ever exists
C5_SelfPairRejected ==
    \A n \in Nodes :
        /\ ~HasKey(ag.edge_added_weights, <<n, n>>)
        /\ <<n, n>> \notin DOMAIN ag.G_edges
        /\ ag.last_edge # <<n, n>>

\* C6 as claimed: labels[n] is the cluster of n in the membership dict of the
\* last clustering pass, and -1 for every node that dict does not mention
C6_LabelsMatchLastPass ==
    \A n \in Nodes :
        IF \E k \in DOMAIN ag.community_nodes : n \in ag.community_nodes[k]
        THEN \E k \in DOMAIN ag.community_nodes :
                n \in ag.community_nodes[k] /\ ag.labels[n] = k
        ELSE ag.labels[n] = -1

\* ------------------------------------------------- clusterer claims
NodeSet(g) == RangeOf(g.nodes)

\* the list cl holds non-empty, pairwise disjoint sets whose union is S
IsPartitionList(cl, S) ==
    /\ \A i \in DOMAIN cl : cl[i] # {}
    /\ \A i, j \in DOMAIN cl : i # j => cl[i] \cap cl[j] = {}
    /\ UNION RangeOf(cl) = S

\* the cluster c is connected over the positive edges of g (weight >= 0 and
\* not NaN): every split of c into two non-empty parts is crossed by one
PositiveConnected(g, c) ==
    \A A \in (SUBSET c) \ {{}, c} :
        \E e \in DOMAIN g.weight :
            /\ g.weight[e] # NaN /\ g.weight[e] >= 0
            /\ \/ e[1] \in A /\ e[2] \in c \ A
               \/ e[2] \in A /\ e[1] \in c \ A

SameCluster(cl, x, y) == \E i \in DOMAIN cl : x \in cl[i] /\ y \in cl[i]

\* the conflict loss of a list of clusters: the weight of the positive edges
\* between clusters plus the absolute weight of the negative edges inside
ClusteringLoss(g, cl) ==
    LET num  == {e \in DOMAIN g.weight : g.weight[e] # NaN}
        cut  == {e \in num : g.weight[e] >= 0 /\ ~SameCluster(cl, e[1], e[2])}
        kept == {e \in num : g.weight[e] < 0 /\ SameCluster(cl, e[1], e[2])}
    IN  SumOver([e \in cut |-> g.weight[e]], cut)
            + SumOver([e \in kept |-> -g.weight[e]], kept)

\* the clusters of the initial assignment of the call
InitialClusters ==
    IF initial = <<>> THEN cluster_connected_components(G, NodeSet(G)) ELSE initial

\* C7: the clusters returned by cluster_correlation_search are non-empty,
\* pairwise disjoint and cover exactly the nodes of the input graph
C7_ReturnsPartition ==
    pc = "done" => IsPartitionList(classes, NodeSet(G))

\* an annealed winner with a cluster that the split broke up was returned
C7_Witness ==
    /\ pc = "done"
    /\ loss_init > 0
    /\ split_flag
    /\ Len(classes) = 3
    /\ Len(classes_of_state(G, best_state)) = 2

\* C8 as claimed: with split_flag on, every returned cluster is connected
\* over the positive edges, whatever the initial assignment
C8_ReturnedClustersConnected ==
    (pc = "done" /\ split_flag) =>
        \A i \in DOMAIN classes : PositiveConnected(G, classes[i])

\* C9: the loss of the chosen winner, and the loss of the clustering
\* returned (after the split, if any), is at most the loss of the initial
\* assignment
C9_LossNotAboveInitial ==
    /\ loss_init = ClusteringLoss(G, InitialClusters) \/ pc = "start"
    /\ pc = "split" =>
        /\ ClusteringLoss(G, classes) = min_loss(l2s)
        /\ ClusteringLoss(G, classes) <= ClusteringLoss(G, InitialClusters)
    /\ pc = "done" => ClusteringLoss(G, classes) <= ClusteringLoss(G, InitialClusters)

\* the split lowered the loss of the winner, which was the initial loss
C9_Witness ==
    /\ pc = "done"
    /\ split_flag
    /\ loss_init > 0
    /\ min_loss(l2s) = loss_init
    /\ ClusteringLoss(G, classes) < min_loss(l2s)

\* the graph of scenario S4: (0,1,+1), (1,2,+1), (0,2,-1), default initial
RepellingTriangle ==
    /\ G.weight = (<<0, 1>> :> 1) @@ (<<1, 2>> :> 1) @@ (<<0, 2>> :> -1)
    /\ initial = <<>>

\* C10 as claimed: on that graph (split_flag at its default, on) the returned
\* clustering has loss 1 and exactly 2 clusters, {0,1}/{2} or {0}/{1,2}
C10_TriangleTwoClusters ==
    (pc = "done" /\ RepellingTriangle /\ split_flag) =>
        /\ ClusteringLoss(G, classes) = 1
        /\ Len(classes) = 2
        /\ RangeOf(classes) \in {{{0, 1}, {2}}, {{0}, {1, 2}}}

\* C10 amended: on that graph the returned clustering has loss exactly 1 and
\* is {0,1}/{2}, {0}/{1,2} or the single cluster {0,1,2} of the initial
\* assignment, which has loss 1 as well and takes part in the tie-break
C10_TriangleLossOne ==
    (pc = "done" /\ RepellingTriangle) =>
        /\ loss_init = 1
        /\ min_loss(l2s) = 1
        /\ ClusteringLoss(G, classes) = 1
        /\ RangeOf(classes) \in {{{0, 1}, {2}}, {{0}, {1, 2}}, {{0, 1, 2}}}
        /\ Len(classes) = Cardinality(RangeOf(classes))

\* the call on the triangle returned the two clusters {0,1} and {2}
C10_Witness ==
    /\ pc = "done"
    /\ RepellingTriangle
    /\ split_flag
    /\ classes = <<{0, 1}, {2}>>
    /\ Len(l2s[1]) >= 2

\* ------------------------------------------------------ sampler claims
\* the round under way is the initial one (annotated graph without edges,
\* ground truth with nodes)
InitialRound == annotated_number_edges(ag) = 0 /\ get_number_nodes(sample_graph) > 0

\* edgesToDraw for a walk over len nodes, in eighths: the number itself when
\* the parameters are absolute numbers, else the fraction of len*(len-1)/2
EdgesToDraw(len) ==
    IF num_flag THEN 2 * Quarters(percentage_edges)
    ELSE (len * (len - 1) * 4 * Quarters(percentage_edges)) \div 4

\* the smallest integer >= x/8
CeilEighths(x) == (x + 7) \div 8

\* the pairs of the complete graph on len nodes
CompletePairs(len) == (len * (len - 1)) \div 2

\* both numbers are of the kind num_flag announces: integers when it is set,
\* fractions when it is not
ConsistentNumbers ==
    /\ percentage_nodes.type = (IF num_flag THEN "int" ELSE "float")
    /\ percentage_edges.type = (IF num_flag THEN "int" ELSE "float")

Endpoints(l) == {l[i][1] : i \in DOMAIN l} \cup {l[i][2] : i \in DOMAIN l}

\* C12 as claimed: an initial round with percentage_nodes a fraction and
\* percentage_edges an absolute integer passes the guard phase and, when it
\* returns, has selected round(N * percentage_nodes) nodes and, these being
\* at least 2, emitted exactly percentage_edges pairs among them
C12_FractionWithAbsolute ==
    ( /\ InitialRound
      /\ percentage_nodes.type = "float" /\ percentage_edges.type = "int"
      /\ guard_phase(sample_graph, percentage_nodes, percentage_edges) ) =>
        /\ dpc # "AssertionError"
        /\ dpc = "done" =>
              /\ Len(exploration_nodes) =
                    round(get_number_nodes(sample_graph) * percentage_nodes.val)
              /\ Endpoints(sampled_edge_list) \subseteq RangeOf(exploration_nodes)
              /\ Len(exploration_nodes) >= 2 =>
                    Len(sampled_edge_list) = percentage_edges.val

\* C13 as claimed: no cluster of size 1 is among the multi-clusters of a
\* round that passed the guard phase and returned
C13_NoSingletonMultiCluster ==
    dpc = "done" =>
        \A i \in DOMAIN multi_clusters : Cardinality(multi_clusters[i]) # 1

\* the round under way is a subsequent one
SubsequentRound == annotated_number_edges(ag) > 0

\* the annotated graph holds an edge between the node and a member of the cluster
EdgeConnected(node, cluster) ==
    \E c \in cluster : sorted(node, c) \in DOMAIN ag.G_edges

\* a judgement, MISSING or not, was recorded on the node and a member of the cluster
JudgedConnected(node, cluster) ==
    \E c \in cluster : HasKey(ag.edge_added_weights, sorted(node, c))

\* the emitted pairs that lead from the node into the cluster
PairsInto(node, cluster) ==
    Cardinality({j \in DOMAIN sampled_edge_list :
                    sampled_edge_list[j][1] = node /\ sampled_edge_list[j][2] \in cluster})

SmallClusterNodes ==
    UNION {ag.community_nodes[k] : k \in {j \in DOMAIN ag.community_nodes :
                                           Cardinality(ag.community_nodes[j]) < min_size_mc}}

\* the fresh nodes are the last Len(new_nodes) entries of combination_nodes
SmallCombinationNodes ==
    {combination_nodes[i] : i \in 1 .. (Len(combination_nodes) - Len(new_nodes))}

\* the round has split the nodes of the small clusters
NodesSplit == SubsequentRound /\ dpc \in {"combination", "exploration", "walk", "return", "done"}

FreshPool == sample_graph.nodes \ ag.G_nodes

\* the number of fresh nodes the round asks for: percentage_nodes itself
\* when num_flag is set, else that fraction of the nodes of the ground truth
NodesRequested ==
    IF num_flag THEN percentage_nodes.val
    ELSE round(Cardinality(sample_graph.nodes) * Quarters(percentage_nodes))

\* the round has drawn its fresh nodes
FreshDrawn == SubsequentRound /\ dpc \in {"combination", "exploration", "walk", "return", "done"}

\* C19: the fresh nodes of a subsequent round are distinct nodes of the
\* ground truth outside the annotated graph, appended to the combination
\* nodes, and as many as asked for or all there are if those are fewer; a
\* round fails at the draw only for a float number of nodes under num_flag,
\* never for a shortage of nodes
C19_FreshNodesCapped ==
    /\ FreshDrawn =>
          /\ RangeOf(new_nodes) \subseteq FreshPool
          /\ Cardinality(RangeOf(new_nodes)) = Len(new_nodes)
          /\ Len(new_nodes) = Min2(NodesRequested, Cardinality(FreshPool))
          /\ SubSeq(combination_nodes,
                    Len(combination_nodes) - Len(new_nodes) + 1,
                    Len(combination_nodes)) = new_nodes
    /\ (SubsequentRound /\ dpc = "TypeError") =>
          /\ num_flag /\ percentage_nodes.type = "float"
          /\ ~(4 * Cardinality(FreshPool) < Quarters(percentage_nodes))

\* a round that was asked for more fresh nodes than there are and took the
\* two that were left
C19_Witness ==
    /\ FreshDrawn /\ dpc = "done"
    /\ NodesRequested > Cardinality(FreshPool)
    /\ Cardinality(FreshPool) = 2
    /\ RangeOf(new_nodes) = FreshPool

\* the exploration phase has returned its walk
WalkReturned == dpc \in {"return", "done"}

\* the triples emitted so far by the exploration phase form a walk over the
\* exploration nodes: no pair joins a node to itself, every endpoint is an
\* exploration node, every pair starts where the one before it ended
IsWalk ==
    /\ \A i \in DOMAIN exploration_edge_list :
          /\ exploration_edge_list[i][1] # exploration_edge_list[i][2]
          /\ exploration_edge_list[i][1] \in RangeOf(exploration_nodes)
          /\ exploration_edge_list[i][2] \in RangeOf(exploration_nodes)
    /\ \A i \in DOMAIN exploration_edge_list :
          i > 1 => exploration_edge_list[i][1] = exploration_edge_list[i - 1][2]

\* C20: the exploration phase, once entered, returns; what it emits is a walk
\* over the exploration nodes; over at least 2 nodes the walk returned has
\* the smallest number of pairs >= the edge budget, and over 0 or 1 nodes
\* nothing is emitted
C20_ExplorationWalk ==
    /\ [](/\ IsWalk
          /\ Len(exploration_nodes) <= 1 => exploration_edge_list = <<>>
          /\ (WalkReturned /\ Len(exploration_nodes) >= 2) =>
                Len(exploration_edge_list) = CeilEighths(max_edges))
    /\ (dpc = "exploration") ~> (dpc = "done")

\* a returned walk of 2 pairs over 3 nodes for a budget of 1.5 pairs
C20_Witness ==
    /\ dpc = "done"
    /\ Len(exploration_nodes) = 3
    /\ max_edges = 12
    /\ Len(exploration_edge_list) = 2
    /\ exploration_edge_list[2][1] = exploration_edge_list[1][2]

\* ------------------------------------------------ stopping and simulation claims
\* C15 as claimed: the window a call of apd_convergence evaluates holds only
\* observations appended by calls of the same simulation
C15_WindowOwnedBySimulation ==
    evaluated_by # 0 =>
        \A i \in DOMAIN evaluated_slice : evaluated_slice[i] = evaluated_by

\* C16 as claimed, for max_iter >= 1 and rounds that add_edges ends without
\* an error: simulation runs at most max_iter rounds and returns (simulation graph, true graph, flag), the flag true
\* exactly when the loop ended because the rounds were used up and not by
\* the stopping criterion
C16_ReturnContract ==
    /\ loop_i # None => loop_i + 1 <= max_iter
    /\ (spc = "done" /\ max_iter >= 1 /\ sim_result.value # <<"TypeError">>) =>
          /\ sim_result.kind = "returned"
          /\ sim_result.value[3] = ~broke
          /\ sim_result.value[1] = "simulationGraph"
          /\ sim_result.value[2] = "trueGraph"

\* C17 as claimed: with integer s, max_attempts and max_iters the call
\* passes its guard phase and returns a dict of the clusters 0 .. k-1, a
\* partition of the nodes of the graph
C17_DocumentedParamsAccepted ==
    ( /\ cpc = "done"
      /\ cc_params.s.type = "int"
      /\ cc_params.max_attempts.type = "int"
      /\ cc_params.max_iters.type = "int" ) =>
        /\ community_node.kind = "returned"
        /\ community_node.value \in PartitionDicts(ag.G_nodes)

\* ------------------------------------------------------ later claims
\* the number of entries of the list l that are the pair e
Occurrences(l, e) == Cardinality({i \in 1 .. Len(l) : l[i] = e})

\* C30 as claimed: the table weight_edge lists every edge of the graph
\* between two distinct nodes once under its current weight and under no
\* other weight
C30_WeightEdgeIndexExact ==
    \A e \in DOMAIN ag.edge_weight :
        \A k \in DOMAIN ag.weight_edge :
            e[1] # e[2] => Occurrences(ag.weight_edge[k], e)
                = IF k = ag.edge_weight[e] THEN 1 ELSE 0

\* the pairs a subsequent round has gathered when it is about to return
RoundYield == sampled_edge_list \o exploration_edge_list

\* C21 as claimed: a subsequent round that gathered no pair returns
\* params['random_sample_empty_round'] pairs of two distinct nodes of the
\* ground truth when that number is positive, and the empty list when it is 0
C21_CallerFallbackTakesEffect ==
    [][ ( /\ dpc = "return"
          /\ annotated_number_edges(ag) # 0
          /\ RoundYield = <<>> ) =>
            /\ dpc' = "done"
            /\ Len(sampled_edge_list') = fallback_param
            /\ \A i \in 1 .. Len(sampled_edge_list') :
                   /\ sampled_edge_list'[i][1] # sampled_edge_list'[i][2]
                   /\ sampled_edge_list'[i][1] \in sample_graph.nodes
                   /\ sampled_edge_list'[i][2] \in sample_graph.nodes ]_vars

\* the phases of one round, in the order of the loop body
ExpectedPhases ==
    IF clustering_flag THEN <<"sampling", "clustering", "stopping">>
    ELSE <<"sampling", "stopping">>

IsPrefix(a, b) == Len(a) <= Len(b) /\ a = SubSeq(b, 1, Len(a))

\* the latest round ran through without an error
RoundCompleted ==
    /\ loop_i # None
    /\ sim_result.kind # "raised"
    /\ spc \in {"loop", "return", "done"}

\* the judgement tables of g are those of h
SameJudgements(g, h) ==
    /\ g.edge_added_weights = h.edge_added_weights
    /\ g.G_edges = h.G_edges
    /\ g.edge_weight = h.edge_weight
    /\ g.edge_soft_weight = h.edge_soft_weight
    /\ g.weight_edge = h.weight_edge
    /\ g.last_edge = h.last_edge
    /\ g.judgements = h.judgements

\* the clusters of the round are the communities of the simulation graph
LabelsWrittenBack ==
    /\ ag.community_nodes = sim_clusters
    /\ \A k \in DOMAIN sim_clusters : \A x \in sim_clusters[k] : ag.labels[x] = k

\* C22: in a round that no error ends, the phases run in the order sampling,
\* clustering (when there is a clusterer), stopping; when the clusterer and
\* the criterion run the simulation graph holds every sampled edge of the
\* round; when the criterion runs the clusters of the round are written
\* back; the criterion runs once per round; and no phase follows a
\* criterion that returned True
C22_RoundOrder ==
    /\ IsPrefix(round_log, ExpectedPhases)
    /\ (spc \in {"clustering", "stopping"} \/ RoundCompleted) =>
           SameJudgements(ag, add_edges(round_start, sampled_edges))
    /\ (clustering_flag /\ (spc = "stopping" \/ RoundCompleted)) => LabelsWrittenBack
    /\ RoundCompleted => round_log = ExpectedPhases
    /\ broke => spc \in {"return", "done"}

\* a call allowed two rounds whose first round sampled an edge, clustered,
\* and was stopped by the criterion
C22_Witness ==
    /\ spc = "done"
    /\ sim_result.kind = "returned"
    /\ max_iter = 2 /\ loop_i = 0
    /\ clustering_flag /\ broke
    /\ sampled_edges # <<>>
    /\ ag.G_nodes # {}

\* C25 as claimed: a sampled pair whose true weight is None is recorded as
\* one MISSING judgement (counter + 1, last_edge the pair, no weight
\* materialized) and the call goes on without an error
C25_NonEdgeRecordedAsMissing ==
    ( /\ round_log # <<>>
      /\ sampled_edges # <<>>
      /\ sampled_edges[1][3] = None ) =>
        /\ sim_result.kind # "raised"
        /\ ag.judgements = round_start.judgements + 1
        /\ ag.last_edge = <<sampled_edges[1][1], sampled_edges[1][2]>>
        /\ ag.edge_weight = round_start.edge_weight

\* the triple joins two distinct nodes of the ground truth
ProperPair(t) ==
    /\ t[1] # t[2]
    /\ t[1] \in sample_graph.nodes
    /\ t[2] \in sample_graph.nodes

\* the clusters of the annotated graph are disjoint sets of its nodes
ClustersDisjoint ==
    \A j, k \in DOMAIN ag.community_nodes :
        /\ ag.community_nodes[k] \subseteq ag.G_nodes
        /\ j # k => ag.community_nodes[j] \cap ag.community_nodes[k] = {}

BigClusters ==
    {k \in DOMAIN ag.community_nodes :
        Cardinality(ag.community_nodes[k]) >= conn_params.cluster_min_size}

\* the number of edges of the graph between the clusters i and j
EdgesBetween(i, j) ==
    Cardinality({e \in DOMAIN ag.G_edges :
        \/ e[1] \in ag.community_nodes[i] /\ e[2] \in ag.community_nodes[j]
        \/ e[1] \in ag.community_nodes[j] /\ e[2] \in ag.community_nodes[i]})

\* the number of edges two clusters must be joined by
EdgesRequired(i, j) ==
    IF conn_params.min_num_edges = Fully
    THEN Cardinality(ag.community_nodes[i]) * Cardinality(ag.community_nodes[j])
    ELSE conn_params.min_num_edges.val

SizeThreshold ==
    IF conn_params.min_size_one_cluster = None THEN Cardinality(ag.G_nodes)
    ELSE conn_params.min_size_one_cluster

\* clusterConnectivity as the claim reads it, with at least required(i, j)
\* edges between any two big clusters
Connectivity(required(_, _)) ==
    IF Cardinality(BigClusters) >= 2
    THEN \A i, j \in BigClusters : i # j => EdgesBetween(i, j) >= required(i, j)
    ELSE /\ Cardinality(BigClusters) = 1
         /\ \A k \in BigClusters : Cardinality(ag.community_nodes[k]) >= SizeThreshold

\* C23 as claimed: cluster_connected returns True exactly when the big
\* clusters are pairwise joined by at least min_num_edges edges (all edges
\* when 'fully'), or the only big cluster has min_size_one_cluster nodes
C23_ConnectedIffJoined ==
    conn_result # "None" =>
        (conn_result = "True" <=> Connectivity(EdgesRequired))

\* C24 as claimed: a call with an integer timesteps and a float threshold
\* does not fail and leaves the number of communities as the last entry of
\* the window
C24_DocumentedCallSucceeds ==
    ( /\ csc_result # "None"
      /\ csc_params.timesteps.type = "int"
      /\ csc_params.threshold.type = "float" ) =>
        /\ csc_result \in {"True", "False"}
        /\ num_clusters # <<>>
        /\ num_clusters[Len(num_clusters)] = get_number_communities(ag)

\* the list of clusters is ordered by size, largest first
OrderedBySize(cl) ==
    \A i, j \in DOMAIN cl : i < j => Cardinality(cl[i]) >= Cardinality(cl[j])

C27_SplitKeepsNodes ==
    /\ pc # "SystemExit"
    /\ pc = "split" =>
          LET nodes_in  == nodes_list(classes)
              nodes_out == nodes_list(classes_out(G, classes))
          IN  /\ RangeOf(nodes_in) = RangeOf(nodes_out)
              /\ Len(nodes_in) = Len(nodes_out)

\* the split broke up a cluster of the annealed winner and the call returned
C27_Witness ==
    /\ pc = "done"
    /\ split_flag
    /\ loss_init > 0
    /\ Len(classes) > Len(classes_of_state(G, best_state))

\* C29 as claimed: no step of the call changes the caller's graph or the
\* caller's initial clustering list
C29_InputsUnchanged == [][G' = G /\ initial' = initial]_vars

====
